---- MODULE Spec2Model ----
(***************************************************************************)
(* Model of the cost-model backend: the in-memory store                    *)
(* (backend/data/store.ts), the NRM2 template loader (backend/config/      *)
(* loader) and the REST handlers (backend/routes/api.ts).                  *)
(*                                                                         *)
(* Numbers.  quantity and unitRate are fixed-point values with two         *)
(* decimals, held as integers in hundredths (1 means 0.01).  A product of  *)
(* two such values is exact in ten-thousandths, so every totalCost is held *)
(* as an integer in ten-thousandths (10000 means 1.00).  The arithmetic is *)
(* the exact arithmetic of the rationals; the binary rounding of IEEE      *)
(* doubles is not modelled.                                                *)
(*                                                                         *)
(* Identifiers.  generateId(prefix) is the triple <<prefix, Date.now(),    *)
(* random suffix>>; the suffix is an input drawn from Randoms.             *)
(*                                                                         *)
(* Optional values (T | undefined, T | null) are sequences of length 0     *)
(* (absent) or 1 (present).                                                *)
(***************************************************************************)
EXTENDS Integers, Sequences, FiniteSets, TLC

VARIABLES
    costModels,          \* store.ts: let costModels: CostModel[]
    measuredWorks,       \* store.ts: let measuredWorks: MeasuredWork[]
    now,                 \* the clock read by Date.now() and new Date()
    cachedNRM2Elements,  \* loader: let cachedNRM2Elements: NRM2Element[] | null
    nrm2Source,          \* state of the file nrm2-default-elements.json
    last,                \* the last call: its name, arguments and result
    steps,               \* number of calls and clock ticks so far
    inflight,            \* the requests between two of their repository calls
    hook                 \* frontend: a component that calls useFetchModelById

vars == <<costModels, measuredWorks, now, cachedNRM2Elements, nrm2Source,
          last, steps, inflight, hook>>

(***************************************************************************)
(* Bounds of the model and the small input sets.                           *)
(***************************************************************************)
\* Every behaviour is explored up to MaxSteps calls and clock ticks.
MaxSteps == 4

\* Math.random().toString(36).substring(2, 7): two of the possible suffixes.
Randoms == {"a", "b"}

(***************************************************************************)
(* Generic helpers.                                                        *)
(***************************************************************************)
Undefined == <<>>

Some(x) == <<x>>

\* seq.find(e => e.id === id) as a position: that of the first element with
\* the id, 0 when there is none.
FindIndexById(seq, id) ==
    IF \E i \in 1..Len(seq) : seq[i].id = id
    THEN CHOOSE i \in 1..Len(seq) :
            seq[i].id = id /\ \A j \in 1..(i - 1) : seq[j].id # id
    ELSE 0

(***************************************************************************)
(* store.ts: identifiers and the clock.                                    *)
(***************************************************************************)
generateId(prefix, timestamp, random) == <<prefix, timestamp, random>>

getCurrentTimestamp == now

\* Ids that generateId never returns: they stand for any id not stored.
UnknownModelId == <<"cm", 0, "none">>
UnknownWorkId == <<"mw", 0, "none">>


(***************************************************************************)
(* store.ts: cost model operations.  A stored CostModel is a record; the   *)
(* descriptive fields (projectName, projectRef, client, gifa, status,      *)
(* preparedBy) are never read by the store and are left out.               *)
(* recalcSum and directWrite are history fields, not fields of CostModel:  *)
(* recalcSum is the sum of the works' totalCost at the last                *)
(* recalculateModelTotalCost that touched the record (absent before the    *)
(* first one); directWrite is the value written by updateModelTotalCost,   *)
(* when that was called after the last recalculation (absent otherwise).   *)
(***************************************************************************)
findModelIndex(models, id) == FindIndexById(models, id)

findModelById(models, id) ==
    IF findModelIndex(models, id) = 0 THEN Undefined
    ELSE Some(models[findModelIndex(models, id)])

NewModel(data, id, ts) ==
    [id |-> id, totalCost |-> data.totalCost, createdAt |-> ts,
     updatedAt |-> ts, recalcSum |-> Undefined, directWrite |-> Undefined]

createModel(models, data, id, ts) ==
    [models |-> Append(models, NewModel(data, id, ts)),
     ret |-> NewModel(data, id, ts)]

\* Mutant of updateModelTotalCost: updatedAt is not refreshed.
updateModelTotalCost_KeepsStamp(models, id, totalCost, ts) ==
    LET i == findModelIndex(models, id) IN
    IF i = 0 THEN [models |-> models, ret |-> Undefined]
    ELSE LET model == [models[i] EXCEPT !.totalCost = totalCost,
                                        !.directWrite = Some(totalCost)]
         IN [models |-> [models EXCEPT ![i] = model], ret |-> Some(model)]

updateModelTotalCost(models, id, totalCost, ts) ==
    LET i == findModelIndex(models, id) IN
    IF i = 0 THEN [models |-> models, ret |-> Undefined]
    ELSE LET model == [models[i] EXCEPT !.totalCost = totalCost,
                                        !.updatedAt = ts,
                                        !.directWrite = Some(totalCost)]
         IN [models |-> [models EXCEPT ![i] = model], ret |-> Some(model)]

\* Mutant of getWorksByModelId: no filter on costModelId.
getWorksByModelId_All(works, costModelId) == works

getWorksByModelId(works, costModelId) ==
    SelectSeq(works, LAMBDA work : work.costModelId = costModelId)

\* works.reduce((sum, work) => sum + work.totalCost, 0)
RECURSIVE SumTotalCost(_)
SumTotalCost(works) ==
    IF works = <<>> THEN 0
    ELSE SumTotalCost(SubSeq(works, 1, Len(works) - 1))
         + works[Len(works)].totalCost

\* Mutant of recalculateModelTotalCost: the sum is computed and the timestamp
\* refreshed, but the sum is not written to the model.
recalculateModelTotalCost_NoWrite(models, allWorks, id, ts) ==
    LET i == findModelIndex(models, id) IN
    IF i = 0 THEN [models |-> models, ret |-> Undefined]
    ELSE LET works == getWorksByModelId(allWorks, id)
             totalCost == SumTotalCost(works)
             model == [models[i] EXCEPT !.updatedAt = ts,
                                        !.recalcSum = Some(totalCost),
                                        !.directWrite = Undefined]
         IN [models |-> [models EXCEPT ![i] = model], ret |-> Some(model)]

recalculateModelTotalCost(models, allWorks, id, ts) ==
    LET i == findModelIndex(models, id) IN
    IF i = 0 THEN [models |-> models, ret |-> Undefined]
    ELSE LET works == getWorksByModelId(allWorks, id)
             totalCost == SumTotalCost(works)
             model == [models[i] EXCEPT !.totalCost = totalCost,
                                        !.updatedAt = ts,
                                        !.recalcSum = Some(totalCost),
                                        !.directWrite = Undefined]
         IN [models |-> [models EXCEPT ![i] = model], ret |-> Some(model)]

deleteModel(models, id) ==
    LET kept == SelectSeq(models, LAMBDA model : model.id # id) IN
    [models |-> kept, ret |-> Len(kept) < Len(models)]

(***************************************************************************)
(* store.ts: measured work operations.                                     *)
(***************************************************************************)
findWorkIndex(works, id) == FindIndexById(works, id)

findWorkById(works, id) ==
    IF findWorkIndex(works, id) = 0 THEN Undefined
    ELSE Some(works[findWorkIndex(works, id)])

\* Mutant of NewWork: the total is the sum, not the product.
NewWork_Sum(data, id, ts) ==
    [id |-> id,
     costModelId |-> data.costModelId,
     elementCode |-> data.elementCode,
     elementName |-> data.elementName,
     description |-> data.description,
     quantity |-> data.quantity,
     unit |-> data.unit,
     unitRate |-> data.unitRate,
     notes |-> data.notes,
     totalCost |-> data.quantity + data.unitRate,
     createdAt |-> ts,
     updatedAt |-> ts]

NewWork(data, id, ts) ==
    [id |-> id,
     costModelId |-> data.costModelId,
     elementCode |-> data.elementCode,
     elementName |-> data.elementName,
     description |-> data.description,
     quantity |-> data.quantity,
     unit |-> data.unit,
     unitRate |-> data.unitRate,
     notes |-> data.notes,
     totalCost |-> data.quantity * data.unitRate,
     createdAt |-> ts,
     updatedAt |-> ts]

\* Mutant of createWork: unshift in place of push, the new work goes first.
createWork_Unshift(works, data, id, ts) ==
    [works |-> <<NewWork(data, id, ts)>> \o works,
     ret |-> NewWork(data, id, ts)]

createWork(works, data, id, ts) ==
    [works |-> Append(works, NewWork(data, id, ts)),
     ret |-> NewWork(data, id, ts)]

\* Mutant of deleteMeasuredWorksByModelId: nothing is removed.
deleteMeasuredWorksByModelId_None(works, costModelId) ==
    [works |-> works, ret |-> 0]

\* Mutant of deleteMeasuredWorksByModelId: the count returned is that of the
\* works kept.
deleteMeasuredWorksByModelId_CountsKept(works, costModelId) ==
    LET kept == SelectSeq(works, LAMBDA work : work.costModelId # costModelId)
    IN [works |-> kept, ret |-> Len(kept)]

deleteMeasuredWorksByModelId(works, costModelId) ==
    LET kept == SelectSeq(works, LAMBDA work : work.costModelId # costModelId)
    IN [works |-> kept, ret |-> Len(works) - Len(kept)]

\* Object.assign(work, updates): the fields of updates overwrite or extend
\* those of work.
ObjectAssign(work, updates) ==
    [f \in (DOMAIN work) \cup (DOMAIN updates) |->
        IF f \in DOMAIN updates THEN updates[f] ELSE work[f]]

\* Mutant of updateWork: the total is recomputed from the values stored before
\* the merge.
updateWork_PreMerge(works, id, updates, ts) ==
    LET i == findWorkIndex(works, id) IN
    IF i = 0 THEN [works |-> works, ret |-> Undefined]
    ELSE LET assigned == ObjectAssign(works[i], updates)
             recalculated ==
                 IF "quantity" \in DOMAIN updates \/ "unitRate" \in DOMAIN updates
                 THEN [assigned EXCEPT
                         !.totalCost = works[i].quantity * works[i].unitRate]
                 ELSE assigned
             work == [recalculated EXCEPT !.updatedAt = ts]
         IN [works |-> [works EXCEPT ![i] = work], ret |-> Some(work)]

\* Mutant of updateWork: updatedAt is refreshed only when the total is
\* recomputed.
updateWork_StampOnRecalc(works, id, updates, ts) ==
    LET i == findWorkIndex(works, id) IN
    IF i = 0 THEN [works |-> works, ret |-> Undefined]
    ELSE LET assigned == ObjectAssign(works[i], updates)
             work ==
                 IF "quantity" \in DOMAIN updates \/ "unitRate" \in DOMAIN updates
                 THEN [assigned EXCEPT
                         !.totalCost = assigned.quantity * assigned.unitRate,
                         !.updatedAt = ts]
                 ELSE assigned
         IN [works |-> [works EXCEPT ![i] = work], ret |-> Some(work)]

updateWork(works, id, updates, ts) ==
    LET i == findWorkIndex(works, id) IN
    IF i = 0 THEN [works |-> works, ret |-> Undefined]
    ELSE LET assigned == ObjectAssign(works[i], updates)
             recalculated ==
                 IF "quantity" \in DOMAIN updates \/ "unitRate" \in DOMAIN updates
                 THEN [assigned EXCEPT
                         !.totalCost = assigned.quantity * assigned.unitRate]
                 ELSE assigned
             work == [recalculated EXCEPT !.updatedAt = ts]
         IN [works |-> [works EXCEPT ![i] = work], ret |-> Some(work)]

\* Mutant of deleteWork: the lengths are compared with <=, so a call that
\* removed nothing reports a removal.
deleteWork_ReportsMiss(works, id) ==
    LET kept == SelectSeq(works, LAMBDA work : work.id # id) IN
    [works |-> kept, ret |-> Len(kept) <= Len(works)]

deleteWork(works, id) ==
    LET kept == SelectSeq(works, LAMBDA work : work.id # id) IN
    [works |-> kept, ret |-> Len(kept) < Len(works)]


(***************************************************************************)
(* Initial state: both arrays empty (store.ts:31-32), the cache null       *)
(* (loader:53).  The configuration file is an input of the process: it is  *)
(* readable with an elements array, missing, or without an elements array; *)
(* it is in place when the process starts and may change afterwards.       *)
(***************************************************************************)
NRM2Sources == {"ok", "missing", "noElements"}

\* No handler has started.  post and del are the local state of a
\* POST /models and of a DELETE /models/:id handler; overlapped records
\* whether one of them made a repository call while the other was between
\* two of its own.
NoneInFlight ==
    [post |-> [pc |-> "idle", id |-> Undefined, elements |-> <<>>,
               created |-> 0],
     del |-> [pc |-> "idle", id |-> Undefined],
     overlapped |-> FALSE]

\* The component before it is mounted.  model, works, loading and error are
\* the useState values of useFetchModelById with their initial values;
\* effects lists the runs of its effect: the modelId each was started for,
\* its active flag, whether its fetch is still awaited and how it settled.
NotMounted ==
    [mounted |-> FALSE, modelId |-> Undefined,
     model |-> Undefined, works |-> <<>>, loading |-> TRUE,
     error |-> Undefined, effects |-> <<>>]

Init ==
    /\ costModels = <<>>
    /\ measuredWorks = <<>>
    /\ now = 0
    /\ cachedNRM2Elements = Undefined
    /\ nrm2Source = "ok"
    /\ last = [op |-> "init"]
    /\ steps = 0
    /\ inflight = NoneInFlight
    /\ hook = NotMounted

\* A call or a handler that runs to completion: it takes one step of the
\* budget and leaves no request between two of its repository calls.
Budget ==
    /\ steps < MaxSteps
    /\ steps' = steps + 1
    /\ UNCHANGED <<inflight, hook>>

\* The clock advances between calls.
Tick ==
    /\ Budget
    /\ now' = now + 1
    /\ last' = [op |-> "tick"]
    /\ UNCHANGED <<costModels, measuredWorks, cachedNRM2Elements, nrm2Source>>

(***************************************************************************)
(* Inputs of the repository calls.                                         *)
(***************************************************************************)
StoredModelIds == {costModels[i].id : i \in 1..Len(costModels)}
StoredWorkIds == {measuredWorks[i].id : i \in 1..Len(measuredWorks)}
ReferencedModelIds ==
    {measuredWorks[i].costModelId : i \in 1..Len(measuredWorks)}

ModelIdInputs == StoredModelIds \cup ReferencedModelIds \cup {UnknownModelId}
WorkIdInputs == StoredWorkIds \cup {UnknownWorkId}

CreateModelInputs == {[totalCost |-> 0]}
TotalCostInputs == {70000}

CreateWorkInputs ==
    {[costModelId |-> m, elementCode |-> "1", elementName |-> "Substructure",
      description |-> "Substructure", quantity |-> q, unit |-> "m2",
      unitRate |-> r, notes |-> "n1"] :
        m \in ModelIdInputs, q \in {0, 3}, r \in {0, 5}}

\* Partial<...> of the updatable fields: every subset of three of them.
UpdateFieldInputs ==
    [quantity |-> 3, unitRate |-> 5, notes |-> "n2"]

UpdateInputs ==
    {[f \in d |-> UpdateFieldInputs[f]] : d \in SUBSET DOMAIN UpdateFieldInputs}

(***************************************************************************)
(* The repository calls as actions (store.ts called directly).             *)
(***************************************************************************)
StoreFrame == UNCHANGED <<now, cachedNRM2Elements, nrm2Source>>

CreateModel ==
    \E data \in CreateModelInputs, random \in Randoms :
        LET r == createModel(costModels, data,
                             generateId("cm", now, random), getCurrentTimestamp)
        IN /\ Budget
           /\ costModels' = r.models
           /\ last' = [op |-> "createModel", data |-> data, ret |-> r.ret]
           /\ UNCHANGED measuredWorks
           /\ StoreFrame

UpdateModelTotalCost ==
    \E id \in ModelIdInputs, totalCost \in TotalCostInputs :
        LET r == updateModelTotalCost(costModels, id, totalCost,
                                      getCurrentTimestamp)
        IN /\ Budget
           /\ costModels' = r.models
           /\ last' = [op |-> "updateModelTotalCost", id |-> id,
                       totalCost |-> totalCost, ret |-> r.ret]
           /\ UNCHANGED measuredWorks
           /\ StoreFrame

RecalculateModelTotalCost ==
    \E id \in ModelIdInputs :
        LET r == recalculateModelTotalCost(costModels, measuredWorks, id,
                                           getCurrentTimestamp)
        IN /\ Budget
           /\ costModels' = r.models
           /\ last' = [op |-> "recalculateModelTotalCost", id |-> id,
                       ret |-> r.ret]
           /\ UNCHANGED measuredWorks
           /\ StoreFrame

\* Mutant of DeleteModel: the works of the model are deleted with it.
DeleteModel_Cascades ==
    \E id \in ModelIdInputs :
        LET r == deleteModel(costModels, id)
        IN /\ Budget
           /\ costModels' = r.models
           /\ measuredWorks' =
                 deleteMeasuredWorksByModelId(measuredWorks, id).works
           /\ last' = [op |-> "deleteModel", id |-> id, ret |-> r.ret]
           /\ StoreFrame

DeleteModel ==
    \E id \in ModelIdInputs :
        LET r == deleteModel(costModels, id)
        IN /\ Budget
           /\ costModels' = r.models
           /\ last' = [op |-> "deleteModel", id |-> id, ret |-> r.ret]
           /\ UNCHANGED measuredWorks
           /\ StoreFrame

CreateWork ==
    \E data \in CreateWorkInputs, random \in Randoms :
        LET r == createWork(measuredWorks, data,
                            generateId("mw", now, random), getCurrentTimestamp)
        IN /\ Budget
           /\ measuredWorks' = r.works
           /\ last' = [op |-> "createWork", data |-> data, ret |-> r.ret]
           /\ UNCHANGED costModels
           /\ StoreFrame

UpdateWork ==
    \E id \in WorkIdInputs, updates \in UpdateInputs :
        LET r == updateWork(measuredWorks, id, updates, getCurrentTimestamp)
        IN /\ Budget
           /\ measuredWorks' = r.works
           /\ last' = [op |-> "updateWork", id |-> id, updates |-> updates,
                       ret |-> r.ret]
           /\ UNCHANGED costModels
           /\ StoreFrame

\* Mutant of DeleteWork: the parent model's total is brought up to date.
DeleteWork_SyncsModel ==
    \E id \in WorkIdInputs :
        LET r == deleteWork(measuredWorks, id)
            found == findWorkById(measuredWorks, id)
        IN /\ Budget
           /\ measuredWorks' = r.works
           /\ last' = [op |-> "deleteWork", id |-> id, ret |-> r.ret]
           /\ costModels' =
                 IF found = Undefined THEN costModels
                 ELSE recalculateModelTotalCost(
                          costModels, r.works, found[1].costModelId,
                          getCurrentTimestamp).models
           /\ StoreFrame

DeleteWork ==
    \E id \in WorkIdInputs :
        LET r == deleteWork(measuredWorks, id)
        IN /\ Budget
           /\ measuredWorks' = r.works
           /\ last' = [op |-> "deleteWork", id |-> id, ret |-> r.ret]
           /\ UNCHANGED costModels
           /\ StoreFrame

DeleteMeasuredWorksByModelId ==
    \E costModelId \in ModelIdInputs :
        LET r == deleteMeasuredWorksByModelId(measuredWorks, costModelId)
        IN /\ Budget
           /\ measuredWorks' = r.works
           /\ last' = [op |-> "deleteMeasuredWorksByModelId",
                       id |-> costModelId, ret |-> r.ret]
           /\ UNCHANGED costModels
           /\ StoreFrame

\* The lookups: they return a value and write nothing.
FindModelById ==
    \E id \in ModelIdInputs :
        /\ Budget
        /\ last' = [op |-> "findModelById", id |-> id,
                    ret |-> findModelById(costModels, id)]
        /\ UNCHANGED <<costModels, measuredWorks>>
        /\ StoreFrame

FindWorkById ==
    \E id \in WorkIdInputs :
        /\ Budget
        /\ last' = [op |-> "findWorkById", id |-> id,
                    ret |-> findWorkById(measuredWorks, id)]
        /\ UNCHANGED <<costModels, measuredWorks>>
        /\ StoreFrame

GetWorksByModelId ==
    \E costModelId \in ModelIdInputs :
        /\ Budget
        /\ last' = [op |-> "getWorksByModelId", id |-> costModelId,
                    ret |-> getWorksByModelId(measuredWorks, costModelId)]
        /\ UNCHANGED <<costModels, measuredWorks>>
        /\ StoreFrame

Next ==
    \/ Tick
    \/ FindModelById
    \/ FindWorkById
    \/ GetWorksByModelId
    \/ CreateModel
    \/ UpdateModelTotalCost
    \/ RecalculateModelTotalCost
    \/ DeleteModel
    \/ CreateWork
    \/ UpdateWork
    \/ DeleteWork
    \/ DeleteMeasuredWorksByModelId

\* The store module called directly, in any order.
Spec == Init /\ [][Next]_vars


(***************************************************************************)
(* loader: the NRM2 template.  The file nrm2-default-elements.json is an   *)
(* input; NRM2Elements is the elements array of a readable file, here two  *)
(* elements, the second without a description.                             *)
(***************************************************************************)
NRM2Elements ==
    <<[code |-> "1", name |-> "Substructure", suggestedUnit |-> "m2",
       description |-> Some("Foundations")],
      [code |-> "2", name |-> "Superstructure", suggestedUnit |-> "m3",
       description |-> Undefined]>>

\* The result of a call that may throw.
Returned(value) == [threw |-> FALSE, value |-> value]
Thrown == [threw |-> TRUE]

\* The elements array of the file after it was rewritten with other content.
EditedNRM2Elements ==
    <<[code |-> "9", name |-> "External works", suggestedUnit |-> "nr",
       description |-> Undefined]>>

loadNRM2Defaults(source) ==
    IF source = "ok" THEN Returned(NRM2Elements)
    ELSE IF source = "edited" THEN Returned(EditedNRM2Elements)
    ELSE Thrown

\* Mutant of getNRM2Defaults: the cache is written but never read, every call
\* loads the file.
getNRM2Defaults_NoCache(cache, source) ==
    IF loadNRM2Defaults(source).threw
    THEN [threw |-> TRUE, loaded |-> TRUE, cache |-> cache]
    ELSE [threw |-> FALSE, loaded |-> TRUE,
          value |-> loadNRM2Defaults(source).value,
          cache |-> Some(loadNRM2Defaults(source).value)]

\* Mutant of getNRM2Defaults: a failed load leaves an empty list in the
\* cache.
getNRM2Defaults_CachesFailure(cache, source) ==
    IF cache = Undefined
    THEN IF loadNRM2Defaults(source).threw
         THEN [threw |-> TRUE, loaded |-> TRUE, cache |-> Some(<<>>)]
         ELSE [threw |-> FALSE, loaded |-> TRUE,
               value |-> loadNRM2Defaults(source).value,
               cache |-> Some(loadNRM2Defaults(source).value)]
    ELSE [threw |-> FALSE, loaded |-> FALSE, value |-> cache[1],
          cache |-> cache]

\* The cache is written only when the load returned.  loaded tells whether
\* the call invoked loadNRM2Defaults.
getNRM2Defaults(cache, source) ==
    IF cache = Undefined
    THEN IF loadNRM2Defaults(source).threw
         THEN [threw |-> TRUE, loaded |-> TRUE, cache |-> cache]
         ELSE [threw |-> FALSE, loaded |-> TRUE,
               value |-> loadNRM2Defaults(source).value,
               cache |-> Some(loadNRM2Defaults(source).value)]
    ELSE [threw |-> FALSE, loaded |-> FALSE, value |-> cache[1],
          cache |-> cache]

clearNRM2Cache == Undefined

(***************************************************************************)
(* validation.ts: the schemas, on the fields the request bodies of the     *)
(* model carry.  A body is a function from field names to values; strings  *)
(* that a schema measures are sequences of characters.                     *)
(***************************************************************************)
createModelSchema(body) ==
    /\ DOMAIN body \subseteq {"projectName", "projectRef", "client", "gifa",
                              "status", "preparedBy"}
       \* z.object strips unknown keys; the model's bodies carry none
    /\ "projectName" \in DOMAIN body
    /\ Len(body.projectName) >= 1
    /\ Len(body.projectName) <= 200
    /\ "gifa" \in DOMAIN body => body.gifa > 0

UpdatableFields ==
    {"elementCode", "elementName", "description", "quantity", "unit",
     "unitRate", "notes"}

\* Mutant of updateMeasuredWorkSchema: .passthrough() in place of .strict(),
\* keys outside the schema are let through.
updateMeasuredWorkSchema_Passthrough(body) ==
    /\ "quantity" \in DOMAIN body => body.quantity >= 0
    /\ "unitRate" \in DOMAIN body => body.unitRate >= 0

\* Mutant of updateMeasuredWorkSchema: quantity and unitRate without
\* .nonnegative().
updateMeasuredWorkSchema_AnyNumber(body) ==
    DOMAIN body \subseteq UpdatableFields

\* Mutant of updateMeasuredWorkSchema: the schema is that of the whole
\* MeasuredWork made partial, so id, costModelId, createdAt and totalCost are
\* accepted.
updateMeasuredWorkSchema_WholeRecord(body) ==
    /\ DOMAIN body \subseteq
          UpdatableFields \cup {"id", "costModelId", "createdAt", "totalCost"}
    /\ "quantity" \in DOMAIN body => body.quantity >= 0
    /\ "unitRate" \in DOMAIN body => body.unitRate >= 0

\* .strict(): a key outside the schema fails the parse.
updateMeasuredWorkSchema(body) ==
    /\ DOMAIN body \subseteq UpdatableFields
    /\ "quantity" \in DOMAIN body => body.quantity >= 0
    /\ "unitRate" \in DOMAIN body => body.unitRate >= 0

(***************************************************************************)
(* api.ts: the handlers.  Each is a function of the store, the cache and   *)
(* the request, giving the store and cache after it and the response.  A   *)
(* handler runs to completion without yielding; the clock does not move    *)
(* while it runs.                                                          *)
(***************************************************************************)
WorkDataFromElement(element, costModelId) ==
    [costModelId |-> costModelId,
     elementCode |-> element.code,
     elementName |-> element.name,
     description |-> IF element.description # Undefined
                     THEN element.description[1] ELSE element.name,
     quantity |-> 0,
     unit |-> element.suggestedUnit,
     unitRate |-> 0,
     notes |-> "Auto-generated from NRM2 defaults"]

\* nrm2Elements.map(element => store.createWork(...)): the works array after it.
RECURSIVE populateWorks(_, _, _, _, _)
populateWorks(works, elements, costModelId, randoms, ts) ==
    IF elements = <<>> THEN works
    ELSE populateWorks(
            createWork(works, WorkDataFromElement(Head(elements), costModelId),
                       generateId("mw", ts, Head(randoms)), ts).works,
            Tail(elements), costModelId, Tail(randoms), ts)

\* POST /models.  random is the suffix of the model's id, randoms those of the
\* works' ids.
postModels(models, works, cache, source, body, random, randoms, ts) ==
    IF ~createModelSchema(body)
    THEN [status |-> 400, models |-> models, works |-> works, cache |-> cache]
    ELSE LET created == createModel(models, [totalCost |-> 0],
                                    generateId("cm", ts, random), ts)
             nrm2 == getNRM2Defaults(cache, source)
         IN IF nrm2.threw
            THEN [status |-> 500, models |-> created.models, works |-> works,
                  cache |-> nrm2.cache]
            ELSE LET populated == populateWorks(works, nrm2.value,
                                                created.ret.id, randoms, ts)
                 IN [status |-> 201, models |-> created.models,
                     works |-> populated, cache |-> nrm2.cache,
                     model |-> created.ret,
                     newWorks |-> SubSeq(populated, Len(works) + 1,
                                         Len(populated))]

\* GET /models/:id
getModelById(models, works, id) ==
    IF findModelById(models, id) = Undefined
    THEN [status |-> 404]
    ELSE [status |-> 200, model |-> findModelById(models, id)[1],
          works |-> getWorksByModelId(works, id),
          worksCount |-> Len(getWorksByModelId(works, id))]

\* POST /models/:id/calculate
postModelsCalculate(models, works, id, ts) ==
    LET updated == recalculateModelTotalCost(models, works, id, ts) IN
    IF updated.ret = Undefined
    THEN [status |-> 404, models |-> updated.models]
    ELSE [status |-> 200, models |-> updated.models, model |-> updated.ret[1]]

\* Mutant of patchMeasuredWork: no check for an empty body.
patchMeasuredWork_NoEmptyCheck(works, id, body, ts) ==
    IF ~updateMeasuredWorkSchema(body)
    THEN [status |-> 400, error |-> "Validation Error", works |-> works]
    ELSE LET updated == updateWork(works, id, body, ts) IN
         IF updated.ret = Undefined
         THEN [status |-> 404, error |-> "Not Found", works |-> updated.works]
         ELSE [status |-> 200, works |-> updated.works,
               work |-> updated.ret[1]]

\* PATCH /measured-works/:id: validateRequest(updateMeasuredWorkSchema), then
\* the handler.  error is the error field of the response body.
patchMeasuredWork(works, id, body, ts) ==
    IF ~updateMeasuredWorkSchema(body)
    THEN [status |-> 400, error |-> "Validation Error", works |-> works]
    ELSE IF DOMAIN body = {}
    THEN [status |-> 400, error |-> "Bad Request", works |-> works]
    ELSE LET updated == updateWork(works, id, body, ts) IN
         IF updated.ret = Undefined
         THEN [status |-> 404, error |-> "Not Found", works |-> updated.works]
         ELSE [status |-> 200, works |-> updated.works,
               work |-> updated.ret[1]]

\* Mutant of deleteModelCascade: the works are not deleted.
deleteModelCascade_ModelOnly(models, works, id) ==
    IF findModelById(models, id) = Undefined
    THEN [status |-> 404, models |-> models, works |-> works]
    ELSE [status |-> 204, works |-> works,
          models |-> deleteModel(models, id).models]

\* Mutant of deleteModelCascade: the works are deleted with deleteWork, which
\* matches on the work's own id.
deleteModelCascade_ByWorkId(models, works, id) ==
    IF findModelById(models, id) = Undefined
    THEN [status |-> 404, models |-> models, works |-> works]
    ELSE [status |-> 204,
          works |-> deleteWork(works, id).works,
          models |-> deleteModel(models, id).models]

\* DELETE /models/:id
deleteModelCascade(models, works, id) ==
    IF findModelById(models, id) = Undefined
    THEN [status |-> 404, models |-> models, works |-> works]
    ELSE [status |-> 204,
          works |-> deleteMeasuredWorksByModelId(works, id).works,
          models |-> deleteModel(models, id).models]

\* Mutant of deleteMeasuredWork: the work is not looked up before the delete.
deleteMeasuredWork_NoLookup(works, id) ==
    IF ~deleteWork(works, id).ret
    THEN [status |-> 500, works |-> deleteWork(works, id).works]
    ELSE [status |-> 204, works |-> deleteWork(works, id).works]

\* DELETE /measured-works/:id
deleteMeasuredWork(works, id) ==
    IF findWorkById(works, id) = Undefined
    THEN [status |-> 404, works |-> works]
    ELSE IF ~deleteWork(works, id).ret
    THEN [status |-> 500, works |-> deleteWork(works, id).works]
    ELSE [status |-> 204, works |-> deleteWork(works, id).works]

(***************************************************************************)
(* Request inputs.                                                         *)
(***************************************************************************)
CreateModelBodies ==
    {[projectName |-> <<"T">>, gifa |-> 100],
     [projectName |-> <<>>, gifa |-> 100]}

\* The empty body, bodies the schema accepts, a negative quantity, a body
\* with a key outside the schema, and a body that names the fields a client
\* must not write.
PatchBodies ==
    {<<>>,
     [quantity |-> 3],
     [unitRate |-> 5],
     [notes |-> "n2"],
     [quantity |-> 3, unitRate |-> 5],
     [quantity |-> -1],
     [quantity |-> 3, totalCost |-> 70000],
     [id |-> UnknownWorkId, costModelId |-> UnknownModelId, createdAt |-> 9,
      totalCost |-> 70000]}

\* Suffixes of the ids of the works of one request: all different, or the
\* first two equal.
RandomSeqs == {<<"a", "b">>, <<"a", "a">>}

(***************************************************************************)
(* The requests as actions.                                                *)
(***************************************************************************)
\* The configuration file is removed, damaged or restored.
SetNRM2Source ==
    \E source \in NRM2Sources \ {nrm2Source} :
        /\ Budget
        /\ nrm2Source' = source
        /\ last' = [op |-> "setNRM2Source"]
        /\ UNCHANGED <<costModels, measuredWorks, now, cachedNRM2Elements>>

PostModels ==
    \E body \in CreateModelBodies, random \in Randoms, randoms \in RandomSeqs :
        LET r == postModels(costModels, measuredWorks, cachedNRM2Elements,
                            nrm2Source, body, random, randoms,
                            getCurrentTimestamp)
        IN /\ Budget
           /\ costModels' = r.models
           /\ measuredWorks' = r.works
           /\ cachedNRM2Elements' = r.cache
           /\ last' = [op |-> "POST /models", body |-> body,
                       res |-> [f \in DOMAIN r \ {"models", "works", "cache"}
                                   |-> r[f]]]
           /\ UNCHANGED <<now, nrm2Source>>

GetModelById ==
    \E id \in ModelIdInputs :
        /\ Budget
        /\ last' = [op |-> "GET /models/:id", id |-> id,
                    res |-> getModelById(costModels, measuredWorks, id)]
        /\ UNCHANGED <<costModels, measuredWorks, now, cachedNRM2Elements,
                       nrm2Source>>

PostModelsCalculate ==
    \E id \in ModelIdInputs :
        LET r == postModelsCalculate(costModels, measuredWorks, id,
                                     getCurrentTimestamp)
        IN /\ Budget
           /\ costModels' = r.models
           /\ last' = [op |-> "POST /models/:id/calculate", id |-> id,
                       res |-> [f \in DOMAIN r \ {"models"} |-> r[f]]]
           /\ UNCHANGED <<measuredWorks, now, cachedNRM2Elements, nrm2Source>>

PatchMeasuredWork ==
    \E id \in WorkIdInputs, body \in PatchBodies :
        LET r == patchMeasuredWork(measuredWorks, id, body, getCurrentTimestamp)
        IN /\ Budget
           /\ measuredWorks' = r.works
           /\ last' = [op |-> "PATCH /measured-works/:id", id |-> id,
                       body |-> body,
                       res |-> [f \in DOMAIN r \ {"works"} |-> r[f]]]
           /\ UNCHANGED <<costModels, now, cachedNRM2Elements, nrm2Source>>

DeleteModelCascade ==
    \E id \in ModelIdInputs :
        LET r == deleteModelCascade(costModels, measuredWorks, id)
        IN /\ Budget
           /\ costModels' = r.models
           /\ measuredWorks' = r.works
           /\ last' = [op |-> "DELETE /models/:id", id |-> id,
                       res |-> [status |-> r.status]]
           /\ UNCHANGED <<now, cachedNRM2Elements, nrm2Source>>

DeleteMeasuredWork ==
    \E id \in WorkIdInputs :
        LET r == deleteMeasuredWork(measuredWorks, id)
        IN /\ Budget
           /\ measuredWorks' = r.works
           /\ last' = [op |-> "DELETE /measured-works/:id", id |-> id,
                       res |-> [status |-> r.status]]
           /\ UNCHANGED <<costModels, now, cachedNRM2Elements, nrm2Source>>

NextApi ==
    \/ Tick
    \/ SetNRM2Source
    \/ PostModels
    \/ GetModelById
    \/ PostModelsCalculate
    \/ PatchMeasuredWork
    \/ DeleteModelCascade
    \/ DeleteMeasuredWork

\* The server: requests handled one at a time, in any order.
SpecApi == Init /\ [][NextApi]_vars

(***************************************************************************)
(* The loader and its callers: getNRM2Defaults and clearNRM2Cache called   *)
(* directly, as the tests do, and POST /models, the caller of              *)
(* getNRM2Defaults in api.ts, in any order, while the file is removed,     *)
(* damaged, restored or rewritten.                                         *)
(***************************************************************************)
LoaderFrame == UNCHANGED <<costModels, measuredWorks, now>>

\* The configuration file is rewritten with another elements array.
EditNRM2Source ==
    /\ nrm2Source # "edited"
    /\ Budget
    /\ nrm2Source' = "edited"
    /\ last' = [op |-> "editNRM2Source"]
    /\ UNCHANGED cachedNRM2Elements
    /\ LoaderFrame

GetNRM2Defaults ==
    LET r == getNRM2Defaults(cachedNRM2Elements, nrm2Source)
    IN /\ Budget
       /\ cachedNRM2Elements' = r.cache
       /\ last' = [op |-> "getNRM2Defaults",
                   res |-> [f \in DOMAIN r \ {"cache"} |-> r[f]]]
       /\ UNCHANGED nrm2Source
       /\ LoaderFrame

ClearNRM2Cache ==
    /\ Budget
    /\ cachedNRM2Elements' = clearNRM2Cache
    /\ last' = [op |-> "clearNRM2Cache"]
    /\ UNCHANGED nrm2Source
    /\ LoaderFrame

NextLoader ==
    \/ SetNRM2Source
    \/ EditNRM2Source
    \/ GetNRM2Defaults
    \/ ClearNRM2Cache
    \/ PostModels

SpecLoader == Init /\ [][NextLoader]_vars

(***************************************************************************)
(* POST /models and DELETE /models/:id split at their repository calls.    *)
(* The handlers of api.ts do not yield, so the server never runs them this *)
(* way; this specification is the finer granularity at which the two       *)
(* sequences are not atomic: one POST /models and one DELETE /models/:id,  *)
(* each advancing by one repository call at a time, in any interleaving.   *)
(* The state of a handler between two calls is its local variables:        *)
(* newModel.id, nrm2Elements and the number of works created so far for    *)
(* the POST, the id for the DELETE.                                        *)
(***************************************************************************)
InterleavedFrame == UNCHANGED <<now, nrm2Source, hook>>

\* POST /models up to the first createWork: createModel, getNRM2Defaults.
PostCreateModel ==
    \E random \in Randoms :
        LET created == createModel(costModels, [totalCost |-> 0],
                                   generateId("cm", now, random),
                                   getCurrentTimestamp)
            nrm2 == getNRM2Defaults(cachedNRM2Elements, nrm2Source)
            post == IF nrm2.threw \/ nrm2.value = <<>>
                    THEN [inflight.post EXCEPT !.pc = "done"]
                    ELSE [pc |-> "works", id |-> Some(created.ret.id),
                          elements |-> nrm2.value, created |-> 0]
        IN /\ inflight.post.pc = "idle"
           /\ costModels' = created.models
           /\ cachedNRM2Elements' = nrm2.cache
           /\ inflight' = [inflight EXCEPT
                             !.post = post,
                             !.overlapped = @ \/ inflight.del.pc = "model"]
           /\ last' = [op |-> "createModel", data |-> [totalCost |-> 0],
                       ret |-> created.ret]
           /\ steps' = steps + 1
           /\ UNCHANGED measuredWorks
           /\ InterleavedFrame

\* POST /models: the createWork of the next template element; the response
\* follows the last one.
PostCreateWork ==
    \E random \in Randoms :
        LET post == inflight.post
            k == post.created + 1
            data == WorkDataFromElement(post.elements[k], post.id[1])
            r == createWork(measuredWorks, data,
                            generateId("mw", now, random), getCurrentTimestamp)
        IN /\ post.pc = "works"
           /\ measuredWorks' = r.works
           /\ inflight' = [inflight EXCEPT
                             !.post.created = k,
                             !.post.pc = IF k = Len(post.elements)
                                         THEN "done" ELSE "works",
                             !.overlapped = @ \/ inflight.del.pc = "model"]
           /\ last' = [op |-> "createWork", data |-> data, ret |-> r.ret]
           /\ steps' = steps + 1
           /\ UNCHANGED <<costModels, cachedNRM2Elements>>
           /\ InterleavedFrame

\* DELETE /models/:id up to deleteModel: findModelById, then 404 or
\* deleteMeasuredWorksByModelId.
DeleteModelWorks ==
    \E id \in ModelIdInputs :
        LET found == findModelById(costModels, id)
            r == deleteMeasuredWorksByModelId(measuredWorks, id)
        IN /\ inflight.del.pc = "idle"
           /\ measuredWorks' = IF found = Undefined THEN measuredWorks
                                ELSE r.works
           /\ inflight' = [inflight EXCEPT
                             !.del = IF found = Undefined
                                     THEN [pc |-> "done", id |-> Some(id)]
                                     ELSE [pc |-> "model", id |-> Some(id)],
                             !.overlapped = @ \/ inflight.post.pc = "works"]
           /\ last' = IF found = Undefined
                       THEN [op |-> "findModelById", id |-> id, ret |-> found]
                       ELSE [op |-> "deleteMeasuredWorksByModelId", id |-> id,
                             ret |-> r.ret]
           /\ steps' = steps + 1
           /\ UNCHANGED <<costModels, cachedNRM2Elements>>
           /\ InterleavedFrame

\* DELETE /models/:id: deleteModel and the response.
DeleteModelRecord ==
    LET id == inflight.del.id[1]
        r == deleteModel(costModels, id)
    IN /\ inflight.del.pc = "model"
       /\ costModels' = r.models
       /\ inflight' = [inflight EXCEPT
                         !.del.pc = "done",
                         !.overlapped = @ \/ inflight.post.pc = "works"]
       /\ last' = [op |-> "deleteModel", id |-> id, ret |-> r.ret]
       /\ steps' = steps + 1
       /\ UNCHANGED <<measuredWorks, cachedNRM2Elements>>
       /\ InterleavedFrame

NextInterleaved ==
    \/ PostCreateModel
    \/ PostCreateWork
    \/ DeleteModelWorks
    \/ DeleteModelRecord

SpecInterleaved == Init /\ [][NextInterleaved]_vars

(***************************************************************************)
(* frontend hooks: useFetchModelById.  A component is mounted with a       *)
(* modelId, is given other modelIds and is unmounted, while the fetches    *)
(* its effect started settle in any order.  api.getModelById(id) resolves  *)
(* with the model of that id and its works, resolves without a works       *)
(* field, or rejects.                                                      *)
(***************************************************************************)
HookModelIds == {generateId("cm", 0, random) : random \in Randoms}

FetchOutcomes == {"ok", "noWorks", "failed"}

\* What the state setters are given when the fetch for modelId settles.
\* resp.works || [] is the empty list when the response has no works.
FetchResult(modelId, outcome) ==
    IF outcome = "failed"
    THEN [model |-> Undefined, works |-> <<>>,
          error |-> Some(<<"failed", modelId>>)]
    ELSE [model |-> Some([id |-> modelId]),
          works |-> IF outcome = "ok" THEN <<[costModelId |-> modelId]>>
                    ELSE <<>>,
          error |-> Undefined]

\* The effect body: active = true, fetchModel() up to its await.
runEffect(h, modelId) ==
    [h EXCEPT !.loading = TRUE,
              !.effects = Append(@, [modelId |-> modelId, active |-> TRUE,
                                     pc |-> "awaiting", outcome |-> "none"])]

\* The cleanup returned by the effect that ran last: active = false.
cleanupEffect(h) ==
    [h EXCEPT !.effects[Len(h.effects)].active = FALSE]

\* Mutant of fetchModelSettled: the setters are called without looking at
\* active.
fetchModelSettled_NoActiveCheck(h, i, outcome) ==
    LET effect == h.effects[i]
        result == FetchResult(effect.modelId, outcome)
        settled == [h EXCEPT !.effects[i].pc = "settled",
                             !.effects[i].outcome = outcome]
    IN [settled EXCEPT !.model = result.model, !.works = result.works,
                       !.error = result.error, !.loading = FALSE]

\* fetchModel() after its await, for the i-th run of the effect: the try,
\* catch and finally blocks.
fetchModelSettled(h, i, outcome) ==
    LET effect == h.effects[i]
        result == FetchResult(effect.modelId, outcome)
        settled == [h EXCEPT !.effects[i].pc = "settled",
                             !.effects[i].outcome = outcome]
    IN IF effect.active
       THEN [settled EXCEPT !.model = result.model, !.works = result.works,
                            !.error = result.error, !.loading = FALSE]
       ELSE settled

HookFrame ==
    /\ steps < MaxSteps
    /\ steps' = steps + 1
    /\ UNCHANGED <<costModels, measuredWorks, now, cachedNRM2Elements,
                   nrm2Source, inflight>>

\* First render and first run of the effect.
Mount ==
    \E modelId \in HookModelIds :
        /\ hook = NotMounted
        /\ hook' = runEffect([hook EXCEPT !.mounted = TRUE,
                                          !.modelId = Some(modelId)], modelId)
        /\ last' = [op |-> "mount", modelId |-> modelId]
        /\ HookFrame

\* A render with another modelId: the cleanup of the previous run, then the
\* effect again.
SetModelId ==
    \E modelId \in HookModelIds :
        /\ hook.mounted
        /\ hook.modelId # Some(modelId)
        /\ hook' = runEffect([cleanupEffect(hook) EXCEPT
                                 !.modelId = Some(modelId)], modelId)
        /\ last' = [op |-> "setModelId", modelId |-> modelId]
        /\ HookFrame

Unmount ==
    /\ hook.mounted
    /\ hook' = [cleanupEffect(hook) EXCEPT !.mounted = FALSE]
    /\ last' = [op |-> "unmount"]
    /\ HookFrame

\* The promise of api.getModelById of one run of the effect settles.
FetchSettles ==
    \E i \in 1..Len(hook.effects), outcome \in FetchOutcomes :
        /\ hook.effects[i].pc = "awaiting"
        /\ hook' = fetchModelSettled(hook, i, outcome)
        /\ last' = [op |-> "fetchSettled", effect |-> i, outcome |-> outcome]
        /\ HookFrame

NextHook ==
    \/ Mount
    \/ SetModelId
    \/ Unmount
    \/ FetchSettles

SpecHook == Init /\ [][NextHook]_vars

(***************************************************************************)
(* The frontend calculation helper calculateCost.  Its operands are        *)
(* numbers in hundredths, or absent when the argument is missing or not    *)
(* numeric (Number(x) is then NaN); its result is in ten-thousandths.      *)
(***************************************************************************)
\* Number(x) || 0
NumberOrZero(x) == IF x = Undefined THEN 0 ELSE x[1]

\* Math.round((total + Number.EPSILON) * 100) / 100.  Math.round(x) is
\* floor(x + 0.5); total is a whole number of ten-thousandths, so the shift
\* by Number.EPSILON moves no value across a rounding boundary.
calculateCost(quantity, unitPrice) ==
    LET q == NumberOrZero(quantity)
        p == NumberOrZero(unitPrice)
        total == q * p
    IN ((total + 50) \div 100) * 100

\* Operands: missing, negative, zero and positive values, with products that
\* lie exactly halfway between two cents (0.50 * 0.25 = 0.1250).
CostOperands == {Undefined} \cup {Some(n) : n \in {-50, -5, 0, 3, 25, 50}}

CalculateCost ==
    \E quantity \in CostOperands, unitPrice \in CostOperands :
        /\ Budget
        /\ last' = [op |-> "calculateCost", quantity |-> quantity,
                    unitPrice |-> unitPrice,
                    ret |-> calculateCost(quantity, unitPrice)]
        /\ UNCHANGED <<costModels, measuredWorks, now, cachedNRM2Elements,
                       nrm2Source>>

NextCalc == CalculateCost

\* The helper called with any operands, any number of times.
SpecCalc == Init /\ [][NextCalc]_vars

(***************************************************************************)
(* Definitions used by the properties below.                               *)
(***************************************************************************)
\* Sum of totalCost over the works at the positions in S.
RECURSIVE SumAt(_, _)
SumAt(works, S) ==
    IF S = {} THEN 0
    ELSE LET i == CHOOSE j \in S : TRUE
         IN works[i].totalCost + SumAt(works, S \ {i})

\* Sum of totalCost over the works whose costModelId is id.
ExpectedModelTotal(works, id) ==
    SumAt(works, {i \in 1..Len(works) : works[i].costModelId = id})

\* Position of the entity an id-addressed call acts on: the first with the id.
Addressed(seq, id) ==
    CHOOSE i \in 1..Len(seq) :
        seq[i].id = id /\ \A j \in 1..(i - 1) : seq[j].id # id

UpdateWorkFound == last.op = "updateWork" /\ last.ret # Undefined

\* Every work other than the one at position i is as it was.
OtherWorksUnchanged(i) ==
    /\ Len(measuredWorks') = Len(measuredWorks)
    /\ \A j \in 1..Len(measuredWorks) :
           j # i => measuredWorks'[j] = measuredWorks[j]

(***************************************************************************)
(* C1.  createWork stores and returns a work whose totalCost is            *)
(* quantity * unitRate, and updateWork recomputes with the same formula:   *)
(* a work updated to (q, r) holds the totalCost a work created with (q, r) *)
(* holds, so that every stored work has totalCost = quantity * unitRate.   *)
(***************************************************************************)
C1_CreateWorkTotalIsProduct ==
    /\ last.op = "createWork" =>
          /\ last.ret.totalCost = last.data.quantity * last.data.unitRate
          /\ last.ret.quantity = last.data.quantity
          /\ last.ret.unitRate = last.data.unitRate
          /\ measuredWorks # <<>>
          /\ measuredWorks[Len(measuredWorks)] = last.ret
    /\ (UpdateWorkFound /\ {"quantity", "unitRate"} \subseteq DOMAIN last.updates) =>
          last.ret[1].totalCost = last.updates.quantity * last.updates.unitRate
    /\ \A i, j \in 1..Len(measuredWorks) :
          (/\ measuredWorks[i].quantity = measuredWorks[j].quantity
           /\ measuredWorks[i].unitRate = measuredWorks[j].unitRate)
          => measuredWorks[i].totalCost = measuredWorks[j].totalCost

\* A work created with (0.03, 0.05) next to a work updated to (0.03, 0.05).
C1_Witness ==
    /\ last.op = "createWork"
    /\ last.data.quantity = 3 /\ last.data.unitRate = 5
    /\ last.ret.totalCost = 15
    /\ \E i \in 1..Len(measuredWorks) :
          /\ measuredWorks[i].updatedAt > measuredWorks[i].createdAt
          /\ measuredWorks[i].quantity = 3 /\ measuredWorks[i].unitRate = 5
          /\ measuredWorks[i].totalCost = 15

(***************************************************************************)
(* C2.  updateWork of an existing work with quantity or unitRate among the *)
(* updates sets totalCost to the product of the post-merge quantity and    *)
(* unitRate: a field that was not supplied keeps its stored value and      *)
(* still enters the product.                                               *)
(***************************************************************************)
C2_UpdateRecomputesFromMerged ==
    [][(/\ UpdateWorkFound'
        /\ DOMAIN last'.updates \cap {"quantity", "unitRate"} # {})
       => LET i == Addressed(measuredWorks, last'.id)
              old == measuredWorks[i]
              new == measuredWorks'[i]
              u == last'.updates
              q == IF "quantity" \in DOMAIN u THEN u.quantity ELSE old.quantity
              r == IF "unitRate" \in DOMAIN u THEN u.unitRate ELSE old.unitRate
          IN /\ new.quantity = q
             /\ new.unitRate = r
             /\ new.totalCost = q * r
             /\ last'.ret = Some(new)]_vars

\* quantity alone was updated and the stored unitRate entered the product.
C2_Witness ==
    /\ UpdateWorkFound
    /\ DOMAIN last.updates = {"quantity"}
    /\ last.ret[1].unitRate = 5
    /\ last.ret[1].totalCost = 15

(***************************************************************************)
(* C3.  updateWork of an existing work with only notes among the updates   *)
(* leaves its totalCost, quantity and unitRate unchanged, sets its notes,  *)
(* sets its updatedAt to the clock, and changes no other work and no model.*)
(***************************************************************************)
C3_NotesOnlyUpdate ==
    [][(UpdateWorkFound' /\ DOMAIN last'.updates = {"notes"})
       => LET i == Addressed(measuredWorks, last'.id)
              old == measuredWorks[i]
              new == measuredWorks'[i]
          IN /\ new.totalCost = old.totalCost
             /\ new.quantity = old.quantity
             /\ new.unitRate = old.unitRate
             /\ new.notes = last'.updates.notes
             /\ new.updatedAt = now'
             /\ OtherWorksUnchanged(i)
             /\ costModels' = costModels]_vars

\* A priced work got new notes after the clock moved; another work is stored.
C3_Witness ==
    /\ UpdateWorkFound
    /\ DOMAIN last.updates = {"notes"}
    /\ last.ret[1].notes = "n2"
    /\ last.ret[1].totalCost = 15
    /\ last.ret[1].updatedAt > last.ret[1].createdAt
    /\ Len(measuredWorks) = 2


\* Rounding of a non-negative amount in ten-thousandths to two decimals.
Round2(amount) == ((amount + 50) \div 100) * 100

(***************************************************************************)
(* C4.  Immediately after createWork or updateWork the work satisfies      *)
(* totalCost = round2(quantity * unitRate), round2 rounding to two         *)
(* decimals.  The store keeps the unrounded product: createWork of         *)
(* quantity 0.03 at unitRate 0.05 stores 0.0015, and round2 of it is 0.    *)
(***************************************************************************)
C4_TotalIsRounded ==
    /\ last.op = "createWork" =>
          last.ret.totalCost = Round2(last.ret.quantity * last.ret.unitRate)
    /\ UpdateWorkFound =>
          last.ret[1].totalCost
              = Round2(last.ret[1].quantity * last.ret[1].unitRate)

RecalculateFound ==
    last.op = "recalculateModelTotalCost" /\ last.ret # Undefined

(***************************************************************************)
(* C5.  recalculateModelTotalCost(id) of a stored model sets its totalCost *)
(* to the sum of totalCost over the works whose costModelId is id (0 when  *)
(* there are none), counts no work of another model, changes no work and   *)
(* no other model and returns the model; totals 67500.00 and 42500.00 give *)
(* 110000.00.                                                              *)
(***************************************************************************)
C5_RecalculateSumsOwnWorks ==
    /\ [][RecalculateFound'
          => LET i == Addressed(costModels, last'.id)
             IN /\ costModels'[i].totalCost
                      = ExpectedModelTotal(measuredWorks, last'.id)
                /\ last'.ret = Some(costModels'[i])
                /\ measuredWorks' = measuredWorks
                /\ Len(costModels') = Len(costModels)
                /\ \A j \in 1..Len(costModels) :
                       j # i => costModels'[j] = costModels[j]]_vars
    /\ SumTotalCost(<<[totalCost |-> 675000000], [totalCost |-> 425000000]>>)
           = 1100000000

\* The model's one work costs 0.0015; a work of another model is not counted.
C5_Witness ==
    /\ RecalculateFound
    /\ last.ret[1].totalCost = 15
    /\ \E i \in 1..Len(measuredWorks) :
          /\ measuredWorks[i].costModelId # last.id
          /\ measuredWorks[i].totalCost = 15

(***************************************************************************)
(* C6.  In every reachable state each stored model that has been           *)
(* recalculated holds the sum its works had at the last recalculation.     *)
(* updateModelTotalCost overwrites the total with its argument, so this    *)
(* holds only while no updateModelTotalCost followed the recalculation.    *)
(***************************************************************************)
C6_TotalIsLastRecalculatedSum ==
    \A i \in 1..Len(costModels) :
        costModels[i].recalcSum # Undefined
        => costModels[i].totalCost = costModels[i].recalcSum[1]

\* C6 as amended: the total of a recalculated model is the sum its works had
\* at the last recalculation, or the value of an updateModelTotalCost that
\* came after it; recalcSum and directWrite record that sum and that value.
C6_TotalIsLastRecalculatedOrWritten ==
    /\ [](\A i \in 1..Len(costModels) :
            costModels[i].recalcSum # Undefined
            => costModels[i].totalCost
                  = IF costModels[i].directWrite = Undefined
                    THEN costModels[i].recalcSum[1]
                    ELSE costModels[i].directWrite[1])
    /\ [][RecalculateFound'
          => costModels'[Addressed(costModels, last'.id)].recalcSum
                = Some(ExpectedModelTotal(measuredWorks, last'.id))]_vars
    /\ [][(last'.op = "updateModelTotalCost" /\ last'.ret # Undefined)
          => costModels'[Addressed(costModels, last'.id)].directWrite
                = Some(last'.totalCost)]_vars

\* A model recalculated to 0.0015, whose work was then deleted: the total is
\* still the sum of the last recalculation.
C6_Witness ==
    /\ last.op = "deleteWork" /\ last.ret = TRUE
    /\ \E i \in 1..Len(costModels) :
          /\ costModels[i].recalcSum = Some(15)
          /\ costModels[i].totalCost = 15
          /\ ExpectedModelTotal(measuredWorks, costModels[i].id) = 0

LineItemMutations ==
    {"createWork", "updateWork", "deleteWork", "deleteMeasuredWorksByModelId"}

(***************************************************************************)
(* C7.  createWork, updateWork, deleteWork and                             *)
(* deleteMeasuredWorksByModelId leave the totalCost and updatedAt of every *)
(* stored model unchanged; a model's totalCost can therefore differ from   *)
(* the sum of its works.                                                   *)
(***************************************************************************)
C7_LineItemMutationsKeepModels ==
    [][last'.op \in LineItemMutations
       => /\ Len(costModels') = Len(costModels)
          /\ \A i \in 1..Len(costModels) :
                /\ costModels'[i].id = costModels[i].id
                /\ costModels'[i].totalCost = costModels[i].totalCost
                /\ costModels'[i].updatedAt = costModels[i].updatedAt]_vars

\* After a deleteWork that removed a row, a model's total is not the sum of
\* its works.
C7_Witness ==
    /\ last.op = "deleteWork" /\ last.ret = TRUE
    /\ \E i \in 1..Len(costModels) :
          costModels[i].totalCost
              # ExpectedModelTotal(measuredWorks, costModels[i].id)


(***************************************************************************)
(* C8.  After DELETE /api/models/M answered 204, no stored work has        *)
(* costModelId M and no stored model has id M, while the models with       *)
(* another id and the works with another costModelId are stored as before. *)
(***************************************************************************)
C8_DeleteModelCascades ==
    [][(last'.op = "DELETE /models/:id" /\ last'.res.status = 204)
       => /\ \A i \in 1..Len(measuredWorks') :
                measuredWorks'[i].costModelId # last'.id
          /\ \A i \in 1..Len(costModels') : costModels'[i].id # last'.id
          /\ costModels'
                = SelectSeq(costModels, LAMBDA m : m.id # last'.id)
          /\ measuredWorks'
                = SelectSeq(measuredWorks,
                            LAMBDA w : w.costModelId # last'.id)
          /\ \E i \in 1..Len(costModels) : costModels[i].id = last'.id]_vars

\* A model was deleted with its works; another model and its works remain.
C8_Witness ==
    /\ last.op = "DELETE /models/:id" /\ last.res.status = 204
    /\ Len(costModels) = 1
    /\ Len(measuredWorks) = Len(NRM2Elements)
    /\ \A i \in 1..Len(measuredWorks) :
          measuredWorks[i].costModelId = costModels[1].id

PostModelsCreated == last.op = "POST /models" /\ last.res.status = 201

WorksStoredFor(id) ==
    SelectSeq(measuredWorks, LAMBDA w : w.costModelId = id)

FromTemplate(works) ==
    /\ Len(works) = Len(NRM2Elements)
    /\ \A i \in 1..Len(works) :
          /\ works[i].elementCode = NRM2Elements[i].code
          /\ works[i].elementName = NRM2Elements[i].name
          /\ works[i].unit = NRM2Elements[i].suggestedUnit
          /\ works[i].quantity = 0
          /\ works[i].unitRate = 0
          /\ works[i].totalCost = 0

(***************************************************************************)
(* C9.  After POST /api/models answered 201 there is one new model with    *)
(* totalCost 0, and the works stored under its id are exactly              *)
(* len(template) works, the i-th with the code, name and unit of the i-th  *)
(* template element and quantity, unitRate and totalCost 0.  Two requests  *)
(* handled in one millisecond whose random suffixes coincide get the same  *)
(* model id, and the works of both are stored under it.                    *)
(***************************************************************************)
C9_PostModelsPopulatesFromTemplate ==
    PostModelsCreated
    => /\ last.res.model.totalCost = 0
       /\ costModels # <<>>
       /\ costModels[Len(costModels)] = last.res.model
       /\ FromTemplate(last.res.newWorks)
       /\ WorksStoredFor(last.res.model.id) = last.res.newWorks

(***************************************************************************)
(* C10.  After any POST /api/models, whatever its status, the store holds  *)
(* the new model together with all len(template) of its works, or neither  *)
(* the model nor any of its works.  When the template cannot be loaded the *)
(* answer is 500 and the model createModel pushed stays, without works.    *)
(***************************************************************************)
C10_PostModelsAllOrNothing ==
    [][last'.op = "POST /models"
       => \/ /\ costModels' = costModels
             /\ measuredWorks' = measuredWorks
          \/ /\ Len(costModels') = Len(costModels) + 1
             /\ SubSeq(costModels', 1, Len(costModels)) = costModels
             /\ Len(measuredWorks')
                   = Len(measuredWorks) + Len(NRM2Elements)
             /\ SubSeq(measuredWorks', 1, Len(measuredWorks)) = measuredWorks
             /\ \A i \in (Len(measuredWorks) + 1)..Len(measuredWorks') :
                   measuredWorks'[i].costModelId
                       = costModels'[Len(costModels')].id]_vars


(***************************************************************************)
(* Calls that address nothing.                                             *)
(***************************************************************************)
ModelIdAddressedOps ==
    {"findModelById", "updateModelTotalCost", "recalculateModelTotalCost",
     "deleteModel"}

WorkIdAddressedOps == {"findWorkById", "updateWork", "deleteWork"}

CostModelIdAddressedOps ==
    {"getWorksByModelId", "deleteMeasuredWorksByModelId"}

\* The call recorded in last' addressed no stored entity: no model with the
\* id, no work with the id, or no work of the cost model.
IsMiss ==
    \/ last'.op \in ModelIdAddressedOps /\ last'.id \notin StoredModelIds
    \/ last'.op \in WorkIdAddressedOps /\ last'.id \notin StoredWorkIds
    \/ last'.op \in CostModelIdAddressedOps
          /\ last'.id \notin ReferencedModelIds

\* The value each repository function returns when it found nothing.
MissSentinel(op) ==
    CASE op \in {"deleteModel", "deleteWork"} -> FALSE
      [] op = "getWorksByModelId" -> <<>>
      [] op = "deleteMeasuredWorksByModelId" -> 0
      [] OTHER -> Undefined

(***************************************************************************)
(* C11.  A repository call on an id that is not stored returns the miss    *)
(* value of its function: undefined for findModelById, findWorkById,       *)
(* updateModelTotalCost, recalculateModelTotalCost and updateWork, false   *)
(* for deleteModel and deleteWork, the empty list for getWorksByModelId    *)
(* and 0 for deleteMeasuredWorksByModelId; and it leaves both collections  *)
(* as they were.                                                           *)
(***************************************************************************)
C11_MissReturnsSentinel ==
    [][IsMiss =>
         /\ last'.ret = MissSentinel(last'.op)
         /\ costModels' = costModels
         /\ measuredWorks' = measuredWorks]_vars

\* A deleteWork on an id that is not stored, in a store that holds a model
\* and a work, answered false.
C11_Witness ==
    /\ last.op = "deleteWork"
    /\ last.id \notin StoredWorkIds
    /\ last.ret = FALSE
    /\ Len(costModels) >= 1
    /\ Len(measuredWorks) >= 1


(***************************************************************************)
(* Definitions used by the properties of PATCH /measured-works/:id.        *)
(***************************************************************************)
\* The request recorded in last' is a PATCH /measured-works/:id.
IsPatch == last'.op = "PATCH /measured-works/:id"

StoreUnchanged ==
    /\ costModels' = costModels
    /\ measuredWorks' = measuredWorks

(***************************************************************************)
(* C12.  A PATCH /measured-works/:id whose body has no fields is answered  *)
(* 400, whether or not the id is stored (never 404), and neither           *)
(* collection changes: no field of the addressed work, updatedAt included, *)
(* is written.                                                             *)
(***************************************************************************)
C12_EmptyPatchIs400 ==
    [][IsPatch /\ DOMAIN last'.body = {} =>
         /\ last'.res.status = 400
         /\ StoreUnchanged]_vars

\* An empty PATCH on a stored work whose updatedAt is older than the clock
\* was answered 400: a call of updateWork would have moved updatedAt.
C12_Witness ==
    /\ last.op = "PATCH /measured-works/:id"
    /\ DOMAIN last.body = {}
    /\ last.res.status = 400
    /\ \E i \in 1..Len(measuredWorks) :
          /\ measuredWorks[i].id = last.id
          /\ measuredWorks[i].updatedAt < now

(***************************************************************************)
(* C13.  A PATCH /measured-works/:id whose body has a field outside        *)
(* elementCode, elementName, description, quantity, unit, unitRate and     *)
(* notes is answered 400 by the validation middleware (error "Validation   *)
(* Error"), and neither collection changes, even when the body also has    *)
(* valid fields.                                                           *)
(***************************************************************************)
C13_UnknownFieldIs400 ==
    [][IsPatch /\ ~(DOMAIN last'.body \subseteq UpdatableFields) =>
         /\ last'.res.status = 400
         /\ last'.res.error = "Validation Error"
         /\ StoreUnchanged]_vars

\* A PATCH with totalCost and a valid quantity on a stored work with another
\* quantity was answered 400.
C13_Witness ==
    /\ last.op = "PATCH /measured-works/:id"
    /\ {"totalCost", "quantity"} \subseteq DOMAIN last.body
    /\ last.res.status = 400
    /\ \E i \in 1..Len(measuredWorks) :
          /\ measuredWorks[i].id = last.id
          /\ measuredWorks[i].quantity # last.body.quantity


(***************************************************************************)
(* C14.  Identifiers are unique: in every state reached by createModel and *)
(* createWork calls, several within one millisecond included, no two       *)
(* stored models share an id and no two stored works share an id.          *)
(* generateId joins the prefix, the millisecond clock and a random suffix: *)
(* two calls in one millisecond that draw the same suffix return the same  *)
(* id, and neither createModel nor createWork looks for the id in the      *)
(* store.                                                                  *)
(***************************************************************************)
C14_IdsAreUnique ==
    /\ \A i, j \in 1..Len(costModels) :
          costModels[i].id = costModels[j].id => i = j
    /\ \A i, j \in 1..Len(measuredWorks) :
          measuredWorks[i].id = measuredWorks[j].id => i = j


(***************************************************************************)
(* C15.  In every state reached by API requests from the empty store,      *)
(* every stored work has quantity >= 0, unitRate >= 0 and totalCost >= 0,  *)
(* and every stored model has totalCost >= 0.                              *)
(***************************************************************************)
C15_NothingNegative ==
    /\ \A i \in 1..Len(measuredWorks) :
          /\ measuredWorks[i].quantity >= 0
          /\ measuredWorks[i].unitRate >= 0
          /\ measuredWorks[i].totalCost >= 0
    /\ \A i \in 1..Len(costModels) : costModels[i].totalCost >= 0

\* A PATCH with a negative quantity was sent to a stored work of a model
\* whose total is positive, and refused.
C15_Witness ==
    /\ last.op = "PATCH /measured-works/:id"
    /\ "quantity" \in DOMAIN last.body
    /\ last.body.quantity < 0
    /\ last.res.status = 400
    /\ \E i \in 1..Len(measuredWorks), j \in 1..Len(costModels) :
          /\ measuredWorks[i].id = last.id
          /\ measuredWorks[i].costModelId = costModels[j].id
          /\ costModels[j].totalCost > 0


(***************************************************************************)
(* C16.  getNRM2Defaults loads the template at most once: a call that      *)
(* loads and returns leaves the returned list in the cache, the cache      *)
(* keeps that list until clearNRM2Cache is called, and while the cache     *)
(* holds a list every call returns it without invoking loadNRM2Defaults,   *)
(* whatever has happened to the file since.                                *)
(***************************************************************************)
C16_LoadsAtMostOnce ==
    [][/\ (last'.op = "getNRM2Defaults" /\ cachedNRM2Elements # Undefined) =>
            /\ ~last'.res.loaded
            /\ ~last'.res.threw
            /\ last'.res.value = cachedNRM2Elements[1]
       /\ (last'.op = "getNRM2Defaults" /\ last'.res.loaded
              /\ ~last'.res.threw) =>
            cachedNRM2Elements' = Some(last'.res.value)
       /\ (cachedNRM2Elements # Undefined /\ last'.op # "clearNRM2Cache") =>
            cachedNRM2Elements' = cachedNRM2Elements]_vars

\* A call was served from the cache, with the list loaded earlier, although
\* the file no longer holds that list.
C16_Witness ==
    /\ last.op = "getNRM2Defaults"
    /\ ~last.res.loaded
    /\ last.res.value = NRM2Elements
    /\ nrm2Source # "ok"


(***************************************************************************)
(* Definitions used by the property of the id-addressed endpoints.         *)
(***************************************************************************)
ModelIdEndpoints ==
    {"GET /models/:id", "POST /models/:id/calculate", "DELETE /models/:id"}

\* The request recorded in last' reached a handler that looks a work up: a
\* DELETE, or a PATCH whose body is valid and not empty.
IsWorkIdRequest ==
    \/ last'.op = "DELETE /measured-works/:id"
    \/ /\ IsPatch
       /\ updateMeasuredWorkSchema(last'.body)
       /\ DOMAIN last'.body # {}

(***************************************************************************)
(* C17.  Each id-addressed endpoint answers 404 exactly when the entity is *)
(* not stored, and then leaves the store unchanged: GET /models/:id,       *)
(* POST /models/:id/calculate and DELETE /models/:id on the model id,      *)
(* PATCH (valid, non-empty body) and DELETE /measured-works/:id on the     *)
(* work id.  DELETE /measured-works/:id answers 204 whenever the work is   *)
(* stored and never answers 500.                                           *)
(***************************************************************************)
C17_NotFoundIffNotStored ==
    [][/\ last'.op \in ModelIdEndpoints =>
            (last'.res.status = 404 <=> last'.id \notin StoredModelIds)
       /\ IsWorkIdRequest =>
            (last'.res.status = 404 <=> last'.id \notin StoredWorkIds)
       /\ (last'.op \in ModelIdEndpoints \/ IsWorkIdRequest)
              /\ last'.res.status = 404 => StoreUnchanged
       /\ last'.op = "DELETE /measured-works/:id" =>
            /\ last'.res.status # 500
            /\ last'.id \in StoredWorkIds => last'.res.status = 204]_vars

\* A DELETE /measured-works/:id for an id that is not stored was answered
\* 404 while the store holds works.
C17_Witness ==
    /\ last.op = "DELETE /measured-works/:id"
    /\ last.res.status = 404
    /\ Len(measuredWorks) >= 1


(***************************************************************************)
(* Definitions used by the property of the timestamps.                     *)
(***************************************************************************)
\* Every record of after is a record of before with the createdAt it had:
\* the records before stay in place when none was removed, and a removal
\* leaves the remaining records as they were.
KeepsCreatedAt(before, after) ==
    IF Len(after) >= Len(before)
    THEN \A i \in 1..Len(before) :
            /\ after[i].id = before[i].id
            /\ after[i].createdAt = before[i].createdAt
    ELSE \A i \in 1..Len(after) : \E j \in 1..Len(before) : after[i] = before[j]

\* createdAt and updatedAt of a record are the clock value.
StampedNow(record) ==
    /\ record.createdAt = now
    /\ record.updatedAt = now

CreatedBeforeUpdated(seq) ==
    \A i \in 1..Len(seq) : seq[i].createdAt <= seq[i].updatedAt

(***************************************************************************)
(* C19.  Under a clock that never goes back: createModel and createWork    *)
(* set createdAt and updatedAt of the new record to the clock value; no    *)
(* call changes the createdAt of a stored record; every updateWork,        *)
(* updateModelTotalCost and recalculateModelTotalCost that found its       *)
(* entity sets that entity's updatedAt to the clock value; and createdAt   *)
(* <= updatedAt holds for every stored model and work.                     *)
(***************************************************************************)
C19_Timestamps ==
    [][/\ now' >= now
       /\ last'.op = "createModel" =>
            /\ StampedNow(last'.ret)
            /\ costModels'[Len(costModels')] = last'.ret
       /\ last'.op = "createWork" =>
            /\ StampedNow(last'.ret)
            /\ measuredWorks'[Len(measuredWorks')] = last'.ret
       /\ KeepsCreatedAt(costModels, costModels')
       /\ KeepsCreatedAt(measuredWorks, measuredWorks')
       /\ (last'.op \in {"updateModelTotalCost", "recalculateModelTotalCost"}
              /\ last'.id \in StoredModelIds) =>
            /\ last'.ret # Undefined
            /\ last'.ret[1].updatedAt = now
            /\ costModels'[findModelIndex(costModels, last'.id)] = last'.ret[1]
       /\ (last'.op = "updateWork" /\ last'.id \in StoredWorkIds) =>
            /\ last'.ret # Undefined
            /\ last'.ret[1].updatedAt = now
            /\ measuredWorks'[findWorkIndex(measuredWorks, last'.id)]
                 = last'.ret[1]
       /\ CreatedBeforeUpdated(costModels')
       /\ CreatedBeforeUpdated(measuredWorks')]_vars

\* An updateModelTotalCost after the clock moved: the model's updatedAt is
\* the clock value and later than its createdAt.
C19_Witness ==
    /\ last.op = "updateModelTotalCost"
    /\ last.ret # Undefined
    /\ last.ret[1].createdAt < last.ret[1].updatedAt
    /\ last.ret[1].updatedAt = now


(***************************************************************************)
(* Definitions used by the property of calculateCost.                      *)
(***************************************************************************)
\* amount (ten-thousandths) rounded to a whole number of cents, a half cent
\* going away from zero.
RoundHalfAwayFromZero(amount) ==
    IF amount >= 0 THEN ((amount + 50) \div 100) * 100
    ELSE -(((50 - amount) \div 100) * 100)

(***************************************************************************)
(* C20.  For all quantities and unit prices, negative products included,   *)
(* calculateCost(quantity, unitPrice) is quantity * unitPrice rounded to 2 *)
(* decimals with halves going away from zero, a missing or non-numeric     *)
(* operand counting as 0.  Math.round takes a half towards plus infinity,  *)
(* so a negative product halfway between two cents comes out one cent      *)
(* nearer to zero than the rule says.                                      *)
(***************************************************************************)
C20_RoundsHalfAwayFromZero ==
    last.op = "calculateCost" =>
        last.ret = RoundHalfAwayFromZero(NumberOrZero(last.quantity)
                                         * NumberOrZero(last.unitPrice))


(***************************************************************************)
(* Definitions used by the property of the interleaved requests.           *)
(***************************************************************************)
\* A work names a cost model that is not stored.
OrphanWorks ==
    \E i \in 1..Len(measuredWorks) :
        measuredWorks[i].costModelId \notin StoredModelIds

\* A stored model has fewer works than the template has elements.
ShortModel ==
    \E i \in 1..Len(costModels) :
        Len(getWorksByModelId(measuredWorks, costModels[i].id))
            < Len(NRM2Elements)

\* No handler is between two of its repository calls.
Quiescent ==
    /\ inflight.post.pc \in {"idle", "done"}
    /\ inflight.del.pc \in {"idle", "done"}

(***************************************************************************)
(* C18.  The sequences createModel, createWork per template element of    *)
(* POST /api/models and deleteMeasuredWorksByModelId, deleteModel of       *)
(* DELETE /api/models/:id are not atomic at the granularity of repository  *)
(* calls: when the calls of the two requests interleave, a state is        *)
(* reached (C18_Witness) in which a work names a model that is not stored. *)
(* The interleaving is what it takes: once both handlers are through, a    *)
(* work without its model or a model short of works exists only if one     *)
(* request made a call while the other was between two of its own.         *)
(***************************************************************************)
C18_OnlyInterleavingBreaksCascade ==
    (Quiescent /\ (OrphanWorks \/ ShortModel)) => inflight.overlapped

\* Both requests are through, their calls interleaved, and a work is left
\* whose model is gone.
C18_Witness ==
    /\ inflight.post.pc = "done"
    /\ inflight.del.pc = "done"
    /\ inflight.overlapped
    /\ OrphanWorks


(***************************************************************************)
(* C21.  deleteModel(id) does not cascade: it removes the models whose id  *)
(* is id and no other model, and it leaves the measured works as they      *)
(* were, so the works of a deleted model stay stored.                      *)
(***************************************************************************)
C21_DeleteModelDoesNotCascade ==
    [][last'.op = "deleteModel" =>
         /\ costModels' =
               SelectSeq(costModels, LAMBDA model : model.id # last'.id)
         /\ measuredWorks' = measuredWorks]_vars

\* A deleteModel removed a model and a work of that model is still stored.
C21_Witness ==
    /\ last.op = "deleteModel"
    /\ last.ret = TRUE
    /\ last.id \notin StoredModelIds
    /\ \E i \in 1..Len(measuredWorks) :
          measuredWorks[i].costModelId = last.id


(***************************************************************************)
(* C22.  With every request handled as one atomic step, no sequence of     *)
(* POST /models, PATCH and DELETE /measured-works/:id,                     *)
(* POST /models/:id/calculate and DELETE /models/:id from the empty store  *)
(* reaches a state with an orphaned work, a work whose costModelId is not  *)
(* the id of a stored model.  It holds whether or not the template load    *)
(* succeeds: a failed load creates no work.                                *)
(***************************************************************************)
C22_NoOrphanWorks == ~OrphanWorks

\* A DELETE /models/:id removed a model and its works while the works of
\* another model stay stored.
C22_Witness ==
    /\ last.op = "DELETE /models/:id"
    /\ last.res.status = 204
    /\ Len(costModels) >= 1
    /\ Len(measuredWorks) >= 1


(***************************************************************************)
(* C23.  No PATCH /measured-works/:id, whatever its body, changes the id,  *)
(* costModelId or createdAt of a stored work, and a totalCost that it      *)
(* changes becomes the product of the work's quantity and unitRate after   *)
(* the update: a client cannot write a totalCost of its own choosing.      *)
(***************************************************************************)
C23_PatchCannotForgeFields ==
    [][IsPatch =>
         /\ Len(measuredWorks') = Len(measuredWorks)
         /\ \A i \in 1..Len(measuredWorks) :
               /\ measuredWorks'[i].id = measuredWorks[i].id
               /\ measuredWorks'[i].costModelId = measuredWorks[i].costModelId
               /\ measuredWorks'[i].createdAt = measuredWorks[i].createdAt
               /\ \/ measuredWorks'[i].totalCost = measuredWorks[i].totalCost
                  \/ measuredWorks'[i].totalCost =
                        measuredWorks'[i].quantity * measuredWorks'[i].unitRate
         /\ costModels' = costModels]_vars

\* A PATCH that names id, costModelId, createdAt and totalCost was sent to a
\* stored work whose total is not the one the body asks for, and refused.
C23_Witness ==
    /\ last.op = "PATCH /measured-works/:id"
    /\ {"id", "costModelId", "createdAt", "totalCost"} \subseteq DOMAIN last.body
    /\ last.res.status = 400
    /\ \E i \in 1..Len(measuredWorks) :
          /\ measuredWorks[i].id = last.id
          /\ measuredWorks[i].totalCost # last.body.totalCost


(***************************************************************************)
(* C24.  deleteWork(id) returns true exactly when a work with the id was   *)
(* stored before the call; when it returns true the collection shrinks by  *)
(* exactly one row and the remaining works are unchanged; when it returns  *)
(* false the collection is unchanged.  deleteWork filters on the id, so    *)
(* when two works share an id (generateId can return the same id twice)    *)
(* one call removes both.                                                  *)
(***************************************************************************)
C24_DeleteWorkRemovesOneRow ==
    [][last'.op = "deleteWork" =>
         /\ last'.ret = (last'.id \in StoredWorkIds)
         /\ last'.ret =>
               /\ Len(measuredWorks') = Len(measuredWorks) - 1
               /\ \A i \in 1..Len(measuredWorks') :
                     \E j \in 1..Len(measuredWorks) :
                         measuredWorks'[i] = measuredWorks[j]
         /\ ~last'.ret => measuredWorks' = measuredWorks]_vars


(***************************************************************************)
(* Definitions used by the property of deleteMeasuredWorksByModelId.       *)
(***************************************************************************)
\* Positions of the works of the cost model, and of the other works.
PositionsOf(works, costModelId) ==
    {i \in 1..Len(works) : works[i].costModelId = costModelId}

PositionsNotOf(works, costModelId) ==
    {i \in 1..Len(works) : works[i].costModelId # costModelId}

(***************************************************************************)
(* C25.  deleteMeasuredWorksByModelId(costModelId) removes every work      *)
(* whose costModelId matches and no other work: the works that do not      *)
(* match stay, unchanged and in their order.  It returns the number of     *)
(* works removed, 0 when none matches, and leaves the models unchanged.    *)
(***************************************************************************)
C25_DeletesExactlyTheModelsWorks ==
    [][last'.op = "deleteMeasuredWorksByModelId" =>
         LET others == PositionsNotOf(measuredWorks, last'.id)
         IN /\ PositionsOf(measuredWorks', last'.id) = {}
            /\ Len(measuredWorks') = Cardinality(others)
            /\ \A i \in others :
                  measuredWorks'[Cardinality({j \in others : j <= i})]
                      = measuredWorks[i]
            /\ last'.ret = Cardinality(PositionsOf(measuredWorks, last'.id))
            /\ costModels' = costModels]_vars

\* A call removed the work of one cost model and left a work of another.
C25_Witness ==
    /\ last.op = "deleteMeasuredWorksByModelId"
    /\ last.ret >= 1
    /\ Len(measuredWorks) >= 1


(***************************************************************************)
(* Definitions used by the property of the order of a model's works.       *)
(***************************************************************************)
\* a is b with some elements left out.
RECURSIVE IsSubsequence(_, _)
IsSubsequence(a, b) ==
    IF a = <<>> THEN TRUE
    ELSE IF b = <<>> THEN FALSE
    ELSE IF Head(a) = Head(b) THEN IsSubsequence(Tail(a), Tail(b))
    ELSE IsSubsequence(a, Tail(b))

\* The works listed before are listed after in the same relative order:
\* new works come after them, works that stay keep their place, and a
\* removal leaves the others as they were.
OrderKept(before, after) ==
    IF Len(after) > Len(before) THEN SubSeq(after, 1, Len(before)) = before
    ELSE IF Len(after) = Len(before)
    THEN \A i \in 1..Len(before) : after[i].id = before[i].id
    ELSE IsSubsequence(after, before)

ElementCodes(works) == [i \in 1..Len(works) |-> works[i].elementCode]

TemplateCodes == [i \in 1..Len(NRM2Elements) |-> NRM2Elements[i].code]

(***************************************************************************)
(* C26.  getWorksByModelId(id) returns the works of a model in the order   *)
(* of their creation: no request changes the relative order of the works   *)
(* of any model that remain (a PATCH keeps every work in place, a DELETE   *)
(* of a work or of a model only leaves works out, a POST /models only adds *)
(* works after the existing ones), the works a POST /models adds for its   *)
(* model are in template order, and GET /models/:id lists the works as     *)
(* getWorksByModelId returns them.                                         *)
(***************************************************************************)
C26_WorksKeepCreationOrder ==
    [][/\ \A m \in ReferencedModelIds :
            OrderKept(getWorksByModelId(measuredWorks, m),
                      getWorksByModelId(measuredWorks', m))
       /\ (last'.op = "POST /models" /\ last'.res.status = 201) =>
            LET m == last'.res.model.id
                before == getWorksByModelId(measuredWorks, m)
                after == getWorksByModelId(measuredWorks', m)
            IN ElementCodes(SubSeq(after, Len(before) + 1, Len(after)))
                   = TemplateCodes
       /\ (last'.op = "GET /models/:id" /\ last'.res.status = 200) =>
            last'.res.works = getWorksByModelId(measuredWorks, last'.id)]_vars

\* GET /models/:id lists the works of a model in template order after its
\* first work was updated and a later model was created.
C26_Witness ==
    /\ last.op = "GET /models/:id"
    /\ last.res.status = 200
    /\ ElementCodes(last.res.works) = TemplateCodes
    /\ last.res.works[1].quantity > last.res.works[2].quantity
    /\ Len(measuredWorks) > Len(last.res.works)


(***************************************************************************)
(* C27.  clearNRM2Cache empties the cache and a change of the file leaves  *)
(* the cache alone, so the getNRM2Defaults call that follows a             *)
(* clearNRM2Cache finds the cache empty; a call that finds the cache empty *)
(* invokes loadNRM2Defaults and returns what the file holds then; a load   *)
(* that fails (file missing, unreadable or without an elements array)      *)
(* raises and leaves the cache empty, so the call after it loads again.    *)
(***************************************************************************)
C27_ClearAndFailureForceReload ==
    [][/\ last'.op = "clearNRM2Cache" => cachedNRM2Elements' = Undefined
       /\ last'.op \in {"setNRM2Source", "editNRM2Source"} =>
            cachedNRM2Elements' = cachedNRM2Elements
       /\ (last'.op = "getNRM2Defaults" /\ cachedNRM2Elements = Undefined) =>
            /\ last'.res.loaded
            /\ last'.res.threw = loadNRM2Defaults(nrm2Source).threw
            /\ last'.res.threw => cachedNRM2Elements' = Undefined
            /\ ~last'.res.threw =>
                  last'.res.value = loadNRM2Defaults(nrm2Source).value
       /\ (last'.op = "getNRM2Defaults" /\ last.op = "clearNRM2Cache") =>
            last'.res.loaded
       /\ (last'.op = "getNRM2Defaults" /\ last.op = "getNRM2Defaults"
              /\ last.res.threw) =>
            last'.res.loaded]_vars

\* A POST /models cached the first template; after a rewrite of the file
\* and a clearNRM2Cache, getNRM2Defaults loaded the rewritten list.
C27_Witness ==
    /\ last.op = "getNRM2Defaults"
    /\ last.res.loaded
    /\ ~last.res.threw
    /\ last.res.value = EditedNRM2Elements
    /\ ElementCodes(measuredWorks) = TemplateCodes


(***************************************************************************)
(* Definitions used by the property of useFetchModelById.                  *)
(***************************************************************************)
\* What the hook returns.
Shown(h) ==
    [model |-> h.model, works |-> h.works, loading |-> h.loading,
     error |-> h.error]

AllSettled(h) ==
    /\ h.effects # <<>>
    /\ \A i \in 1..Len(h.effects) : h.effects[i].pc = "settled"

\* What the hook returns once the fetch of the given run has been applied.
ShownFor(effect) ==
    [model |-> FetchResult(effect.modelId, effect.outcome).model,
     works |-> FetchResult(effect.modelId, effect.outcome).works,
     loading |-> FALSE,
     error |-> FetchResult(effect.modelId, effect.outcome).error]

(***************************************************************************)
(* C28.  In useFetchModelById the response or error of a fetch started for *)
(* a previous modelId, or one that arrives after the unmount, updates none *)
(* of model, works, error and loading; and once every fetch has settled,   *)
(* in whatever order, a mounted component shows the result of the fetch    *)
(* for its current modelId, the one started last.                          *)
(***************************************************************************)
C28_StaleResponsesAreIgnored ==
    [][/\ (last'.op = "fetchSettled"
              /\ (~hook.mounted \/ last'.effect # Len(hook.effects))) =>
            Shown(hook') = Shown(hook)
       /\ (hook'.mounted /\ AllSettled(hook')) =>
            /\ hook'.effects[Len(hook'.effects)].modelId = hook'.modelId[1]
            /\ Shown(hook') = ShownFor(hook'.effects[Len(hook'.effects)])]_vars

\* Fetches for two modelIds were in flight and the one started first
\* settled last; the component is still mounted.
C28_Witness ==
    /\ last.op = "fetchSettled"
    /\ last.effect = 1
    /\ hook.mounted
    /\ Len(hook.effects) >= 2
    /\ AllSettled(hook)
    /\ hook.effects[1].outcome # hook.effects[2].outcome
====
